---- MODULE Spec2Model ----
(***************************************************************************)
(* Patient Progress Notes Generator (src/app.py).                          *)
(*                                                                         *)
(* A text is a sequence of one-character strings; "\n" is the newline.     *)
(* Literal pieces of the two templates (tags, headings) are kept as        *)
(* single multi-character tokens.  An uploaded .docx is the list of its    *)
(* tables, a table the list of its rows, a row the list of its cells, a    *)
(* cell the list of its paragraphs, a paragraph its text (cell.paragraphs, *)
(* p.text).                                                                *)
(***************************************************************************)
EXTENDS Integers, Sequences, FiniteSets, TLC

VARIABLES
    team_info,      \* the text of the "Team and Members" box
    uploaded_file,  \* <<>> (None) or <<file>>: what the uploader holds
    now,            \* the clock
    patients,       \* the records parse_docx returned in the last run
    messages,       \* st.error / st.success banners of the last run, in order
    exceptions,     \* st.exception details of the last run, in order
    previews,       \* the preview markup of the last run, one per record
    button,         \* whether "Generate Progress Notes" is on the page
    clicked,        \* what st.button returned in the last run
    raised,         \* where create_progress_notes raised in the last run
    download,       \* <<>> or <<bytes>>: the generated notes offered for download
    last_call,      \* <<>> or the completed create_progress_notes call of the last run
    prev_call       \* last_call of the run before, when this run's call returned too

vars == <<team_info, uploaded_file, now, patients, messages, exceptions,
          previews, button, clicked, raised, download, last_call, prev_call>>

(***************************************************************************)
(* Bounds of the model.                                                    *)
(***************************************************************************)
MaxRows == 2
MaxClock == 2

(***************************************************************************)
(* Python str primitives.                                                  *)
(***************************************************************************)
Whitespace == {" ", "\n", "\t"}

RECURSIVE lstrip(_)
lstrip(s) ==
    IF s = <<>> THEN <<>>
    ELSE IF Head(s) \in Whitespace THEN lstrip(Tail(s)) ELSE s

RECURSIVE rstrip(_)
rstrip(s) ==
    IF s = <<>> THEN <<>>
    ELSE IF s[Len(s)] \in Whitespace THEN rstrip(SubSeq(s, 1, Len(s) - 1)) ELSE s

strip(s) == rstrip(lstrip(s))

RECURSIVE join(_, _)
join(sep, items) ==
    IF items = <<>> THEN <<>>
    ELSE IF Len(items) = 1 THEN items[1]
    ELSE items[1] \o sep \o join(sep, Tail(items))

LowerOf(c) ==
    CASE c = "A" -> "a" [] c = "B" -> "b" [] c = "D" -> "d" [] c = "I" -> "i"
      [] c = "J" -> "j" [] c = "L" -> "l" [] c = "N" -> "n" [] c = "O" -> "o"
      [] c = "P" -> "p" [] c = "R" -> "r" [] c = "T" -> "t"
      [] OTHER -> c

lower(s) == [i \in 1..Len(s) |-> LowerOf(s[i])]

\* Python's `k in s` for strings: k occurs in s as a contiguous substring.
Contains(s, k) ==
    \E i \in 1..(Len(s) - Len(k) + 1) : SubSeq(s, i, i + Len(k) - 1) = k

(***************************************************************************)
(* Table Extractor.                                                        *)
(***************************************************************************)
NonEmptyStripped(paragraphs) ==
    SelectSeq([i \in 1..Len(paragraphs) |-> strip(paragraphs[i])],
              LAMBDA t : t /= <<>>)

\* Mutant: the paragraphs joined without the filter on empty ones.
get_text_keep_empty(cell) ==
    join(<<"\n">>, [i \in 1..Len(cell) |-> strip(cell[i])])

get_text_from_cell(cell) == join(<<"\n">>, NonEmptyStripped(cell))

MinCells == 4

HeaderKeywords ==
    << <<"p","a","t","i","e","n","t">>, <<"n","a","m","e">>, <<"i","d">>,
       <<"i","s","s","u","e">>, <<"i","s","s","u","e","s">>, <<"l","a","b">>,
       <<"p","l","a","n">>, <<"o","n"," ","r","e","v","i","e","w">> >>

header_combined(pinfo, issues, labs, plan) ==
    lower(pinfo \o <<" ">> \o issues \o <<" ">> \o labs \o <<" ">> \o plan)

IsHeaderText(combined) ==
    \E k \in 1..Len(HeaderKeywords) : Contains(combined, HeaderKeywords[k])

\* Mutant: the header test applied to every row.
SkipAsHeaderAnyRow(row_idx, pinfo, issues, labs, plan) ==
    IsHeaderText(header_combined(pinfo, issues, labs, plan))

\* The header test of one row: only the row at table index 0 is a candidate.
SkipAsHeader(row_idx, pinfo, issues, labs, plan) ==
    /\ row_idx = 0
    /\ IsHeaderText(header_combined(pinfo, issues, labs, plan))

\* Mutant: rows of exactly MinCells cells are skipped too.
ParseRowOffByOne(row_idx, row, acc) ==
    IF Len(row) <= MinCells THEN acc
    ELSE LET pinfo  == get_text_from_cell(row[1])
             issues == get_text_from_cell(row[2])
             labs   == get_text_from_cell(row[3])
             plan   == get_text_from_cell(row[4])
         IN  IF SkipAsHeader(row_idx, pinfo, issues, labs, plan) THEN acc
             ELSE IF strip(pinfo) /= <<>>
                  THEN Append(acc, [patient_info |-> strip(pinfo),
                                    issues |-> strip(issues),
                                    labs |-> strip(labs),
                                    plan |-> strip(plan)])
                  ELSE acc

\* Mutant: labs and plan read from each other's cell.
ParseRowSwapped(row_idx, row, acc) ==
    IF Len(row) < MinCells THEN acc
    ELSE LET pinfo  == get_text_from_cell(row[1])
             issues == get_text_from_cell(row[2])
             labs   == get_text_from_cell(row[4])
             plan   == get_text_from_cell(row[3])
         IN  IF SkipAsHeader(row_idx, pinfo, issues, labs, plan) THEN acc
             ELSE IF strip(pinfo) /= <<>>
                  THEN Append(acc, [patient_info |-> strip(pinfo),
                                    issues |-> strip(issues),
                                    labs |-> strip(labs),
                                    plan |-> strip(plan)])
                  ELSE acc

\* One iteration of the loop over table.rows: the records after the row.
ParseRow(row_idx, row, acc) ==
    IF Len(row) < MinCells THEN acc
    ELSE LET pinfo  == get_text_from_cell(row[1])
             issues == get_text_from_cell(row[2])
             labs   == get_text_from_cell(row[3])
             plan   == get_text_from_cell(row[4])
         IN  IF SkipAsHeader(row_idx, pinfo, issues, labs, plan) THEN acc
             ELSE IF strip(pinfo) /= <<>>
                  THEN Append(acc, [patient_info |-> strip(pinfo),
                                    issues |-> strip(issues),
                                    labs |-> strip(labs),
                                    plan |-> strip(plan)])
                  ELSE acc

RECURSIVE ParseRows(_, _, _)
ParseRows(rows, row_idx, acc) ==
    IF row_idx >= Len(rows) THEN acc
    ELSE ParseRows(rows, row_idx + 1, ParseRow(row_idx, rows[row_idx + 1], acc))

MsgCouldNotParse == "Could not parse the .docx file. Make sure it is valid."

\* Mutant: a file that cannot be parsed is reported by nothing.
parse_docx_silent(file) ==
    IF ~file.valid \/ file.tables = <<>>
    THEN [patients |-> <<>>, errors |-> <<>>, exceptions |-> <<>>]
    ELSE [patients |-> ParseRows(file.tables[1], 0, <<>>),
          errors |-> <<>>, exceptions |-> <<>>]

\* parse_docx: the records, and what it reports through st.error/st.exception.
parse_docx(file) ==
    IF ~file.valid
    THEN [patients |-> <<>>, errors |-> <<MsgCouldNotParse>>,
          exceptions |-> <<"Document(io.BytesIO(data))">>]
    ELSE IF file.tables = <<>>
    THEN [patients |-> <<>>, errors |-> <<>>, exceptions |-> <<>>]
    ELSE [patients |-> ParseRows(file.tables[1], 0, <<>>),
          errors |-> <<>>, exceptions |-> <<>>]

(***************************************************************************)
(* The clock.  A time is a number of two-second steps after ClockStart     *)
(* (23:59:56 on 3 November 2026); the model runs across one midnight.      *)
(***************************************************************************)
ClockStart == [year |-> <<"2","0","2","6">>, month |-> 11, day |-> 3,
               second |-> 86396, step |-> 2]

datetime_now(t) ==
    LET s == ClockStart.second + ClockStart.step * t
    IN  [year |-> ClockStart.year, month |-> ClockStart.month,
         day |-> ClockStart.day + (s \div 86400),
         second |-> s % 86400]

Digit(n) ==
    CASE n = 0 -> "0" [] n = 1 -> "1" [] n = 2 -> "2" [] n = 3 -> "3"
      [] n = 4 -> "4" [] n = 5 -> "5" [] n = 6 -> "6" [] n = 7 -> "7"
      [] n = 8 -> "8" [] n = 9 -> "9"

MonthName(m) == CASE m = 11 -> "November" [] m = 12 -> "December"

\* strftime("%d %B %Y"): zero-padded day, full month name, year.
strftime(dt) ==
    <<Digit(dt.day \div 10), Digit(dt.day % 10), " ", MonthName(dt.month), " ">>
    \o dt.year

(***************************************************************************)
(* python-docx documents: a body of paragraphs, a paragraph a list of      *)
(* runs.  Setting a run's text turns every "\n" into a line break element  *)
(* and every "\t" into a tab element.                                      *)
(***************************************************************************)
LineBreak == "<w:br/>"
PageBreak == "<w:br w:type=page/>"
TabStop == "<w:tab/>"

RunContent(text) ==
    [i \in 1..Len(text) |->
        IF text[i] = "\n" THEN LineBreak
        ELSE IF text[i] = "\t" THEN TabStop ELSE text[i]]

\* para.add_run(text) with the formatting the caller then sets on the run.
Run(text, bold, italic, size) ==
    [content |-> RunContent(text), bold |-> bold, italic |-> italic, size |-> size]

Paragraph(alignment, runs) == [alignment |-> alignment, runs |-> runs]

\* doc.add_paragraph(text): a run is added only for a non-empty text.
add_paragraph(text) ==
    Paragraph("unset", IF text /= <<>> THEN <<Run(text, "unset", "unset", 0)>> ELSE <<>>)

\* doc.add_page_break(): a new paragraph holding one run with a page break.
add_page_break ==
    Paragraph("unset", <<[content |-> <<PageBreak>>, bold |-> "unset",
                          italic |-> "unset", size |-> 0]>>)

\* Mutant: a spacer loop that runs one time too few.
BlankOneShort(n) == [i \in 1..(n - 1) |-> add_paragraph(<<>>)]

\* for _ in range(n): doc.add_paragraph()
Blank(n) == [i \in 1..n |-> add_paragraph(<<>>)]

\* WD_ALIGN_PARAGRAPH imports from every python-docx release that has Cm and Pt.
WD_ALIGN == "RIGHT"

Pt11 == 11
Pt12 == 12
SpacerAfterPatient == 2
SpacerAfterReview == 4
SpacerAfterExamination == 4

\* The body of the loop of create_progress_notes without its page break.
RecordBlock(p, team, today) ==
    << Paragraph(WD_ALIGN, <<Run(p.patient_info, "on", "unset", Pt12)>>) >>
    \o Blank(SpacerAfterPatient)
    \o << Paragraph("unset", <<Run(team, "on", "on", Pt11)>>) >>
    \o Blank(1)
    \o << Paragraph("unset", <<Run(<<"Ward Round Notes">>, "on", "unset", Pt12),
                               Run(<<" ", " ">> \o today, "unset", "unset", Pt11)>>),
          Paragraph("unset", <<Run(<<"Issues">>, "on", "unset", 0)>>),
          add_paragraph(p.issues),
          Paragraph("unset", <<Run(<<"On review">>, "on", "unset", 0)>>),
          add_paragraph(p.labs) >>
    \o Blank(SpacerAfterReview)
    \o << Paragraph("unset", <<Run(<<"On examination">>, "on", "unset", 0)>>) >>
    \o Blank(SpacerAfterExamination)
    \o << Paragraph("unset", <<Run(<<"Plan">>, "on", "unset", 0)>>),
          add_paragraph(p.plan) >>

\* Mutant: the last index taken to be n.
BreakAfterEvery(idx, n) == idx /= n

\* Whether iteration idx of the loop ends with doc.add_page_break().
BreakAfter(idx, n) == idx /= n - 1

\* Mutant: the date read inside the loop, so that the last record is stamped
\* when the loop ends.
StampPerRecord(idx, n, t_call, t_end) ==
    strftime(datetime_now(IF idx = n - 1 THEN t_end ELSE t_call))

\* The date stamp iteration idx writes; t_call is when line 103 ran, t_end
\* when the loop had finished.
StampOf(idx, n, t_call, t_end) == strftime(datetime_now(t_call))

RECURSIVE RenderRecords(_, _, _, _, _)
RenderRecords(records, idx, team, t_call, t_end) ==
    IF idx >= Len(records) THEN <<>>
    ELSE RecordBlock(records[idx + 1], team,
                     StampOf(idx, Len(records), t_call, t_end))
         \o (IF BreakAfter(idx, Len(records)) THEN <<add_page_break>> ELSE <<>>)
         \o RenderRecords(records, idx + 1, team, t_call, t_end)

Margins == [top |-> 1, bottom |-> 2, left |-> 5, right |-> 2]

\* The Document object when the loop has finished.
BuildDocument(records, team, t_call, t_end) ==
    [section |-> Margins,
     body |-> RenderRecords(records, 0, team, t_call, t_end)]

\* doc.save(buffer): the package is a zip archive; its members carry the
\* local time of the write in the archive's two-second resolution.
ZipStamp(t) ==
    LET dt == datetime_now(t)
    IN  [year |-> dt.year, month |-> dt.month, day |-> dt.day,
         dostime |-> dt.second \div 2]

save(doc, t) == [document |-> doc, stamp |-> ZipStamp(t)]

\* create_progress_notes called at t_call, its loop done and saved at t_end.
create_progress_notes(records, team, t_call, t_end) ==
    save(BuildDocument(records, IF team /= <<>> THEN team ELSE <<>>, t_call, t_end),
         t_end)

(***************************************************************************)
(* Preview markup.  The result of format_preview_html is the f-string of   *)
(* lines 169-190 as a sequence of pieces: the template's tags and          *)
(* headings are tokens, a field contributes the characters that            *)
(* _html_escape_and_br returns for it.                                     *)
(***************************************************************************)
EscapeChar(c) ==
    CASE c = "&" -> <<"&","a","m","p",";">>
      [] c = "<" -> <<"&","l","t",";">>
      [] c = ">" -> <<"&","g","t",";">>
      [] c = "\"" -> <<"&","q","u","o","t",";">>
      [] c = "'" -> <<"&","#","x","2","7",";">>
      [] OTHER -> <<c>>

RECURSIVE html_escape(_)
html_escape(s) ==
    IF s = <<>> THEN <<>> ELSE EscapeChar(Head(s)) \o html_escape(Tail(s))

RECURSIVE replace_newline_br(_)
replace_newline_br(s) ==
    IF s = <<>> THEN <<>>
    ELSE (IF Head(s) = "\n" THEN <<"<","b","r",">">> ELSE <<Head(s)>>)
         \o replace_newline_br(Tail(s))

\* Mutant: the newlines replaced before escaping.
EscapeAfterBr(s) ==
    IF s = <<>> THEN <<>> ELSE html_escape(replace_newline_br(s))

html_escape_and_br(s) ==
    IF s = <<>> THEN <<>> ELSE replace_newline_br(html_escape(s))

DivPatient == "<div style=\"text-align:right; font-size:16px; font-weight:bold;\">"
DivTeam == "<div style=\"font-size:14px; font-style:italic; font-weight:bold; color:#444;\">"
DivTitle == "<div style=\"font-size:16px; font-weight:bold;\">"
DivHeading == "<div style=\"font-weight:bold;\">"
DivBody == "<div>"
DivEnd == "</div>"
SpanDate == "<span style=\"font-size:14px; font-style:italic; font-weight:normal;\">"
SpanEnd == "</span>"
Br == "<br>"

format_preview_html(p, team, t) ==
    LET today       == strftime(datetime_now(t))
        issues_html == html_escape_and_br(p.issues)
        labs_html   == html_escape_and_br(p.labs)
        plan_html   == html_escape_and_br(p.plan)
    IN  <<"\n", DivPatient, "\n">> \o html_escape_and_br(p.patient_info)
        \o <<"\n", DivEnd, "\n", Br, Br, "\n", DivTeam, "\n">>
        \o html_escape_and_br(IF team /= <<>> THEN team ELSE <<>>)
        \o <<"\n", DivEnd, "\n", Br, "\n", DivTitle, "\n",
             "Ward Round Notes", " ", SpanDate>> \o today \o <<SpanEnd, "\n",
             DivEnd, "\n", DivHeading, "Issues", DivEnd, "\n", DivBody>>
        \o issues_html
        \o <<DivEnd, "\n", DivHeading, "On review", DivEnd, "\n", DivBody>>
        \o labs_html
        \o <<DivEnd, "\n", Br, Br, Br, Br, "\n",
             DivHeading, "On examination", DivEnd, "\n", Br, Br, Br, Br, "\n",
             DivHeading, "Plan", DivEnd, "\n", DivBody>>
        \o plan_html
        \o <<DivEnd, "\n">>

(***************************************************************************)
(* The page script (lines 221-267).  Every interaction reruns it from the  *)
(* top with the widgets' current values; st.button is true only in the run *)
(* its click starts.                                                       *)
(***************************************************************************)
MsgNoValid == "No valid patient rows found in the document (or failed to parse). Try the sample file to check format."
MsgFound == "Found patient(s) in the file."
MsgGenerated == "Progress notes generated - click to download:"
MsgDocxError == "An error occurred while creating the DOCX."

Failures == {"none", "in loop", "in save"}

\* Mutant: the download button placed after the try block, fed with what the
\* document held when the call raised.
GenerateBlockLeaky(records, team, fail, t_call, t_end) ==
    LET output == create_progress_notes(
                     IF fail = "in loop" THEN SubSeq(records, 1, Len(records) - 1)
                     ELSE records, team, t_call, t_end)
    IN  IF fail = "none"
        THEN [messages |-> <<MsgGenerated>>, exceptions |-> <<>>,
              download |-> <<output>>,
              call |-> <<[records |-> records, team |-> team, t_call |-> t_call,
                          t_end |-> t_end, output |-> output]>>]
        ELSE [messages |-> <<MsgDocxError>>, exceptions |-> <<fail>>,
              download |-> <<output>>, call |-> <<>>]

\* The try block of lines 245-256: what the click adds to the page.
GenerateBlock(records, team, fail, t_call, t_end) ==
    IF fail = "none"
    THEN LET output == create_progress_notes(records, team, t_call, t_end)
         IN  [messages |-> <<MsgGenerated>>, exceptions |-> <<>>,
              download |-> <<output>>,
              call |-> <<[records |-> records, team |-> team, t_call |-> t_call,
                          t_end |-> t_end, output |-> output]>>]
    ELSE [messages |-> <<MsgDocxError>>, exceptions |-> <<fail>>,
          download |-> <<>>, call |-> <<>>]

NoGenerate == [messages |-> <<>>, exceptions |-> <<>>, download |-> <<>>, call |-> <<>>]

\* One run of the script: the page it leaves.
ScriptRun(team, upload, pressed, fail, t_call, t_end) ==
    IF upload = <<>>
    THEN [patients |-> <<>>, messages |-> <<>>, exceptions |-> <<>>,
          previews |-> <<>>, button |-> FALSE, clicked |-> FALSE,
          raised |-> "none", download |-> <<>>, call |-> <<>>]
    ELSE LET parsed == parse_docx(upload[1])
             found  == parsed.patients
         IN  IF found = <<>>
             THEN [patients |-> found,
                   messages |-> parsed.errors \o <<MsgNoValid>>,
                   exceptions |-> parsed.exceptions,
                   previews |-> <<>>, button |-> FALSE, clicked |-> FALSE,
                   raised |-> "none", download |-> <<>>, call |-> <<>>]
             ELSE LET gen == IF pressed
                             THEN GenerateBlock(found, team, fail, t_call, t_end)
                             ELSE NoGenerate
                  IN  [patients |-> found,
                       messages |-> parsed.errors \o <<MsgFound>> \o gen.messages,
                       exceptions |-> parsed.exceptions \o gen.exceptions,
                       previews |-> [i \in 1..Len(found) |->
                                       format_preview_html(found[i], team, t_call)],
                       button |-> TRUE,
                       clicked |-> pressed,
                       raised |-> IF pressed THEN fail ELSE "none",
                       download |-> gen.download,
                       call |-> gen.call]

Show(page) ==
    /\ patients' = page.patients
    /\ messages' = page.messages
    /\ exceptions' = page.exceptions
    /\ previews' = page.previews
    /\ button' = page.button
    /\ clicked' = page.clicked
    /\ raised' = page.raised
    /\ download' = page.download
    /\ last_call' = page.call

(***************************************************************************)
(* Inputs.                                                                 *)
(***************************************************************************)
pAl     == <<"A", "l">>
pBo     == <<"B", "o">>
pId     == <<"I", "D", " ", "7">>
pPlan   == <<"P", "l", "a", "n">>
pOn     == <<"o", "n">>
pReview == <<"r", "e", "v", "i", "e", "w">>
pLt     == <<"a", "<", "b", ">">>
pAmp    == <<"&", "l", "t", ";">>
pQuote  == <<"\"", "'">>
pPadded == <<" ", "x", " ", " ", "y", "\t">>
pBroken == <<"u", "\n", "v">>
pSpace  == <<" ">>
pEmpty  == <<>>

rHeader   == << <<pId>>, <<pBo>>, <<pEmpty>>, <<pPlan>> >>
rShort    == << <<pId>>, <<pPlan>>, <<pBo>> >>
rAcross   == << <<pAl>>, <<pOn>>, <<pReview>>, <<pEmpty>> >>
rWithin   == << <<pBo>>, <<pOn, pReview>>, <<pQuote>>, <<pBroken>>, <<pId>> >>
rMarkup   == << <<pAl>>, <<pLt, pEmpty, pAmp>>, <<pSpace, pBo>>, <<pPadded, pSpace, pBo>> >>
rNoName   == << <<pSpace, pEmpty>>, <<pBo>>, <<pBo>>, <<pBo>> >>

Rows == {rHeader, rShort, rWithin, rMarkup, rNoName}

Tables == UNION {[1..n -> Rows] : n \in 0..MaxRows}

NotADocument == [valid |-> FALSE, tables |-> <<>>]

\* Tables beyond MaxRows rows, and those with a first row whose only keyword
\* lies across two cells.
LongTables ==
    {<<rHeader, rMarkup, rWithin>>, <<rShort, rHeader, rMarkup>>,
     <<rAcross, rNoName, rShort, rMarkup, rMarkup, rWithin>>,
     <<rAcross>>, <<rMarkup, rAcross>>}

Files ==
    {NotADocument, [valid |-> TRUE, tables |-> <<>>],
     [valid |-> TRUE, tables |-> << <<>>, <<rMarkup>> >>],
     [valid |-> TRUE, tables |-> << <<rWithin>>, <<rMarkup, rHeader>> >>]}
    \cup {[valid |-> TRUE, tables |-> <<t>>] : t \in Tables \cup LongTables}

Teams == {<<>>, <<"T", "<", "&">>}

(***************************************************************************)
(* State machine.                                                          *)
(***************************************************************************)
Init ==
    /\ team_info = <<>>
    /\ uploaded_file = <<>>
    /\ now = 0
    /\ patients = <<>>
    /\ messages = <<>>
    /\ exceptions = <<>>
    /\ previews = <<>>
    /\ button = FALSE
    /\ clicked = FALSE
    /\ raised = "none"
    /\ download = <<>>
    /\ last_call = <<>>
    /\ prev_call = <<>>

\* The user edits the team box.
SetTeam(team) ==
    /\ team /= team_info
    /\ team_info' = team
    /\ Show(ScriptRun(team, uploaded_file, FALSE, "none", now, now))
    /\ prev_call' = <<>>
    /\ UNCHANGED <<uploaded_file, now>>

\* The user puts a file into the empty uploader.
Upload(file) ==
    /\ uploaded_file = <<>>
    /\ uploaded_file' = <<file>>
    /\ Show(ScriptRun(team_info, <<file>>, FALSE, "none", now, now))
    /\ prev_call' = <<>>
    /\ UNCHANGED <<team_info, now>>

\* The user removes the file from the uploader.
RemoveFile ==
    /\ uploaded_file /= <<>>
    /\ uploaded_file' = <<>>
    /\ Show(ScriptRun(team_info, <<>>, FALSE, "none", now, now))
    /\ prev_call' = <<>>
    /\ UNCHANGED <<team_info, now>>

\* The user presses "Generate Progress Notes"; the clock advances by dt steps
\* while create_progress_notes runs, and the call may raise.
ClickGenerate(fail, dt) ==
    /\ button
    /\ now + dt <= MaxClock
    /\ Show(ScriptRun(team_info, uploaded_file, TRUE, fail, now, now + dt))
    /\ prev_call' = IF fail = "none" THEN last_call ELSE <<>>
    /\ now' = now + dt
    /\ UNCHANGED <<team_info, uploaded_file>>

\* The user presses the download button of the generated notes.
ClickDownload ==
    /\ download /= <<>>
    /\ Show(ScriptRun(team_info, uploaded_file, FALSE, "none", now, now))
    /\ prev_call' = <<>>
    /\ UNCHANGED <<team_info, uploaded_file, now>>

Next ==
    \/ \E team \in Teams : SetTeam(team)
    \/ \E file \in Files : Upload(file)
    \/ RemoveFile
    \/ \E fail \in Failures, dt \in 0..1 : ClickGenerate(fail, dt)
    \/ ClickDownload

Spec == Init /\ [][Next]_vars

(***************************************************************************)
(* Reading the state.                                                      *)
(***************************************************************************)
Parsed == uploaded_file /= <<>> /\ uploaded_file[1].valid

\* The rows of the first table of the upload (none without a table).
UploadedRows ==
    IF Parsed /\ uploaded_file[1].tables /= <<>>
    THEN uploaded_file[1].tables[1] ELSE <<>>

InSeq(x, seq) == \E i \in 1..Len(seq) : seq[i] = x

\* Some paragraph of the cell holds a character that is not whitespace.
HasVisibleChar(cell) ==
    \E i \in 1..Len(cell) : \E j \in 1..Len(cell[i]) : cell[i][j] \notin Whitespace

FirstRowIsHeader(rows) ==
    /\ Len(rows) >= 1
    /\ Len(rows[1]) >= 4
    /\ IsHeaderText(header_combined(get_text_from_cell(rows[1][1]),
                                    get_text_from_cell(rows[1][2]),
                                    get_text_from_cell(rows[1][3]),
                                    get_text_from_cell(rows[1][4])))

Qualifying(rows) ==
    {i \in 1..Len(rows) :
        /\ Len(rows[i]) >= 4
        /\ ~(i = 1 /\ FirstRowIsHeader(rows))
        /\ HasVisibleChar(rows[i][1])}

\* C1: the number of records equals the number of rows of the first table
\* that have at least 4 cells, are not the first row recognised as a header,
\* and have a first cell that is non-empty after trimming.
C1_RecordCount ==
    Parsed => Len(patients) = Cardinality(Qualifying(UploadedRows))

C1_Witness ==
    /\ Parsed
    /\ FirstRowIsHeader(UploadedRows)
    /\ \E i \in 1..Len(UploadedRows) : Len(UploadedRows[i]) < 4
    /\ \E i \in 2..Len(UploadedRows) :
          Len(UploadedRows[i]) >= 4 /\ ~HasVisibleChar(UploadedRows[i][1])
    /\ Len(patients) = 3

C2_Keywords ==
    { <<"p","a","t","i","e","n","t">>, <<"n","a","m","e">>, <<"i","d">>,
      <<"i","s","s","u","e">>, <<"i","s","s","u","e","s">>, <<"l","a","b">>,
      <<"p","l","a","n">>, <<"o","n"," ","r","e","v","i","e","w">> }

C2_FirstFour(row) ==
    lower(join(<<" ">>, [k \in 1..4 |-> get_text_from_cell(row[k])]))

C2_KeywordRow(row) == \E kw \in C2_Keywords : Contains(C2_FirstFour(row), kw)

\* C2: the row at index 0 is skipped as a header exactly when the lower-cased,
\* space-joined text of its first four cells contains a keyword; a row at a
\* later index is never skipped by the header check, also when row 0 was
\* skipped for having fewer than 4 cells.
C2_HeaderOnlyFirstRow ==
    LET rows == UploadedRows
    IN  /\ \A i \in 1..Len(rows) :
              Len(rows[i]) >= 4 =>
                 (SkipAsHeader(i - 1, get_text_from_cell(rows[i][1]),
                               get_text_from_cell(rows[i][2]),
                               get_text_from_cell(rows[i][3]),
                               get_text_from_cell(rows[i][4]))
                  <=> (i = 1 /\ C2_KeywordRow(rows[i])))
        /\ Parsed =>
              Len(patients) =
                 Cardinality({i \in 1..Len(rows) :
                                 /\ Len(rows[i]) >= 4
                                 /\ HasVisibleChar(rows[i][1])
                                 /\ ~(i = 1 /\ C2_KeywordRow(rows[i]))})

C2_Witness ==
    /\ Len(UploadedRows) = 2
    /\ UploadedRows[1] = UploadedRows[2]
    /\ Len(UploadedRows[1]) >= 4
    /\ C2_KeywordRow(UploadedRows[1])
    /\ Len(patients) = 1

\* The indices of the rows that yield a record, in table order.
SourceRows(rows) ==
    SelectSeq([i \in 1..Len(rows) |-> i], LAMBDA i : i \in Qualifying(rows))

\* C3: the records are in the order of their source rows, each takes its four
\* fields from cells 0, 1, 2, 3 of its one row, later cells have no influence
\* and equal rows each give a record.
C3_PositionalInOrder ==
    Parsed =>
      LET rows == UploadedRows
          src  == SourceRows(rows)
      IN  /\ Len(patients) = Len(src)
          /\ \A k \in 1..Len(src) :
                patients[k] =
                   [patient_info |-> get_text_from_cell(rows[src[k]][1]),
                    issues |-> get_text_from_cell(rows[src[k]][2]),
                    labs |-> get_text_from_cell(rows[src[k]][3]),
                    plan |-> get_text_from_cell(rows[src[k]][4])]

C3_Witness ==
    /\ Len(patients) = 3
    /\ patients[1] = patients[2]
    /\ patients[3] /= patients[2]
    /\ Len(UploadedRows[SourceRows(UploadedRows)[3]]) > 4
    /\ patients[2].labs /= patients[2].plan

(***************************************************************************)
(* Reading a generated document.                                           *)
(***************************************************************************)
RECURSIVE Flatten(_)
Flatten(seqs) == IF seqs = <<>> THEN <<>> ELSE Head(seqs) \o Flatten(Tail(seqs))

\* What a paragraph holds: the content of its runs, in order.
ParContent(par) == Flatten([r \in 1..Len(par.runs) |-> par.runs[r].content])

IsPageBreak(par) == InSeq(PageBreak, ParContent(par))

GeneratedBody == download[1].document.body

BreakPositions(body) == {i \in 1..Len(body) : IsPageBreak(body[i])}

\* C4: n >= 1 records give their blocks in list order with exactly n - 1 page
\* breaks, one directly after the Plan body of each of the first n - 1
\* records and none after the last.
C4_PageBreaks ==
    download /= <<>> =>
      LET body   == GeneratedBody
          n      == Len(patients)
          breaks == BreakPositions(body)
          heads  == SelectSeq(body, LAMBDA par : par.alignment = "RIGHT")
      IN  /\ n >= 1
          /\ Cardinality(breaks) = n - 1
          /\ ~IsPageBreak(body[Len(body)])
          /\ ParContent(body[Len(body)]) = RunContent(patients[n].plan)
          /\ Len(heads) = n
          /\ \A k \in 1..n : ParContent(heads[k]) = RunContent(patients[k].patient_info)
          /\ \A i \in breaks :
                LET k == Cardinality({j \in breaks : j <= i})
                IN  /\ i > 2 /\ i < Len(body)
                    /\ ParContent(body[i]) = <<PageBreak>>
                    /\ ParContent(body[i - 2]) = <<"Plan">>
                    /\ ParContent(body[i - 1]) = RunContent(patients[k].plan)
                    /\ ParContent(body[i + 1]) = RunContent(patients[k + 1].patient_info)

C4_Witness ==
    /\ download /= <<>>
    /\ Len(patients) = 3
    /\ Cardinality(BreakPositions(GeneratedBody)) = 2

(***************************************************************************)
(* Reading preview markup as a browser does.                               *)
(***************************************************************************)
StartsWith(s, prefix) ==
    Len(s) >= Len(prefix) /\ SubSeq(s, 1, Len(prefix)) = prefix

Drop(s, n) == SubSeq(s, n + 1, Len(s))

ActiveMarkup == "(unescaped markup)"

Entities ==
    << [code |-> <<"&","a","m","p",";">>, char |-> "&"],
       [code |-> <<"&","l","t",";">>, char |-> "<"],
       [code |-> <<"&","g","t",";">>, char |-> ">"],
       [code |-> <<"&","q","u","o","t",";">>, char |-> "\""],
       [code |-> <<"&","#","x","2","7",";">>, char |-> "'"] >>

\* The text a browser shows for escaped characters: an entity is its character,
\* <br> a line break; any other <, > or & is ActiveMarkup.
RECURSIVE Shown(_)
Shown(s) ==
    IF s = <<>> THEN <<>>
    ELSE IF StartsWith(s, <<"<","b","r",">">>) THEN <<"\n">> \o Shown(Drop(s, 4))
    ELSE IF \E e \in 1..Len(Entities) : StartsWith(s, Entities[e].code)
    THEN LET e == CHOOSE e \in 1..Len(Entities) : StartsWith(s, Entities[e].code)
         IN  <<Entities[e].char>> \o Shown(Drop(s, Len(Entities[e].code)))
    ELSE IF Head(s) \in {"<", ">", "&"} THEN <<ActiveMarkup>> \o Shown(Tail(s))
    ELSE <<Head(s)>> \o Shown(Tail(s))

\* The pieces of the template itself.
TemplatePieces ==
    {DivPatient, DivTeam, DivTitle, DivHeading, DivBody, DivEnd, SpanDate, SpanEnd,
     Br, "\n", "Ward Round Notes", "Issues", "On review", "On examination", "Plan"}

\* What the fields (and the date) put into the markup, in order.
FieldMarkup(html) == SelectSeq(html, LAMBDA x : x \notin TemplatePieces)

DateAt(t) == strftime(datetime_now(t))

\* C5: every verbatim field of the preview is escaped first and has its
\* newlines replaced by <br> afterwards: read back, the markup shows exactly
\* the field texts, and no <, > or & of a field is left unescaped.
C5_PreviewEscaped ==
    \A i \in 1..Len(previews) :
       \E t \in 0..MaxClock :
          Shown(FieldMarkup(previews[i])) =
             patients[i].patient_info \o team_info \o <<" ">> \o DateAt(t)
             \o patients[i].issues \o patients[i].labs \o patients[i].plan

C5_Witness ==
    /\ InSeq("<", team_info) /\ InSeq("&", team_info)
    /\ \E i \in 1..Len(previews) :
          /\ InSeq("<", patients[i].issues) /\ InSeq(">", patients[i].issues)
          /\ InSeq("&", patients[i].issues) /\ InSeq("\n", patients[i].issues)
          /\ Contains(previews[i], <<"&","a","m","p",";","l","t",";">>)

\* C6 as amended: bytes that are no document give the malformed-input message
\* followed by the empty-result message, no records and no generate action;
\* input that parses with zero records gives the empty-result message alone;
\* the malformed-input message is shown only when the input did not parse.
C6_FailuresReported ==
    uploaded_file /= <<>> =>
       /\ ~Parsed => /\ messages = <<MsgCouldNotParse, MsgNoValid>>
                     /\ patients = <<>>
                     /\ ~button /\ download = <<>>
       /\ (Parsed /\ patients = <<>>) => /\ messages = <<MsgNoValid>>
                                         /\ ~button /\ download = <<>>
       /\ InSeq(MsgCouldNotParse, messages) <=> ~Parsed
       /\ InSeq(MsgNoValid, messages) <=> patients = <<>>

C6_Witness ==
    /\ uploaded_file /= <<>> /\ ~Parsed
    /\ InSeq(MsgCouldNotParse, messages) /\ InSeq(MsgNoValid, messages)
    /\ exceptions /= <<>>

\* C6 as stated: the two failures are reported distinctly, the empty-result
\* message only when the input parsed, so that no upload shows both messages.
C6_AsStated ==
    uploaded_file /= <<>> =>
       /\ ~Parsed => /\ InSeq(MsgCouldNotParse, messages)
                     /\ patients = <<>> /\ ~button
       /\ (Parsed /\ patients = <<>>) => InSeq(MsgNoValid, messages)
       /\ InSeq(MsgNoValid, messages) => Parsed
       /\ ~(InSeq(MsgCouldNotParse, messages) /\ InSeq(MsgNoValid, messages))

\* C7: the generated notes are offered for download only in a run where
\* extraction gave a record, the generate action was triggered and
\* create_progress_notes returned, and what is offered is what it returned;
\* when it raises, the error and its cause are shown and nothing is offered.
C7_DownloadOnlyOnSuccess ==
    /\ download /= <<>> =>
          /\ patients /= <<>> /\ clicked /\ raised = "none"
          /\ last_call /= <<>>
          /\ download = <<last_call[1].output>>
          /\ last_call[1].records = patients
          /\ InSeq(MsgGenerated, messages)
    /\ (clicked /\ raised /= "none") =>
          /\ InSeq(MsgDocxError, messages)
          /\ exceptions = <<raised>>
          /\ download = <<>>
          /\ ~InSeq(MsgGenerated, messages)

C7_Witness ==
    /\ clicked /\ raised = "in loop"
    /\ Len(patients) >= 2
    /\ download = <<>>
    /\ InSeq(MsgDocxError, messages)

(***************************************************************************)
(* The two renderings as what a reader sees: a list of elements, each the  *)
(* list of its visible lines (none for an empty element).                  *)
(***************************************************************************)
RECURSIVE SplitAt(_, _, _)
SplitAt(s, sep, line) ==
    IF s = <<>> THEN <<line>>
    ELSE IF Head(s) = sep THEN <<line>> \o SplitAt(Tail(s), sep, <<>>)
    ELSE SplitAt(Tail(s), sep, Append(line, Head(s)))

\* The lines of a text; the empty text has none.
LinesOf(text, sep) == IF text = <<>> THEN <<>> ELSE SplitAt(text, sep, <<>>)

\* Runs of blanks shown as one blank, none at either end of a line.
RECURSIVE Collapse(_)
Collapse(s) ==
    IF s = <<>> THEN <<>>
    ELSE IF Head(s) \in {" ", "\t"}
    THEN IF Len(s) = 1 \/ s[2] \in {" ", "\t"} THEN Collapse(Tail(s))
         ELSE <<" ">> \o Collapse(Tail(s))
    ELSE <<Head(s)>> \o Collapse(Tail(s))

Tidy(line) == Collapse(lstrip(line))

TidyLines(lines) == [i \in 1..Len(lines) |-> Tidy(lines[i])]

\* The bodies of the records of a document: its paragraphs between page breaks.
Pages(body) ==
    LET at == SelectSeq([i \in 1..Len(body) |-> i], LAMBDA i : IsPageBreak(body[i]))
    IN  [k \in 1..(Len(at) + 1) |->
            SubSeq(body, IF k = 1 THEN 1 ELSE at[k - 1] + 1,
                         IF k = Len(at) + 1 THEN Len(body) ELSE at[k] - 1)]

\* The raw lines of each paragraph of one record's page.
DocLines(page) ==
    [i \in 1..Len(page) |-> LinesOf(ParContent(page[i]), LineBreak)]

DivOpen == {DivPatient, DivTeam, DivTitle, DivHeading, DivBody}

Last(positions) == CHOOSE m \in positions : \A j \in positions : j <= m

\* Position i of the markup lies inside a div.
InsideDiv(html, i) ==
    LET marks == {j \in 1..(i - 1) : html[j] \in DivOpen \cup {DivEnd}}
    IN  marks /= {} /\ html[Last(marks)] \in DivOpen

\* What the div that ends at position i holds; a newline of the markup is a
\* blank to the browser, a span shows its content in line.
DivText(html, i) ==
    LET o    == Last({j \in 1..(i - 1) : html[j] \in DivOpen})
        held == SelectSeq(SubSeq(html, o + 1, i - 1),
                          LAMBDA x : x \notin {SpanDate, SpanEnd})
    IN  [j \in 1..Len(held) |-> IF held[j] = "\n" THEN " " ELSE held[j]]

\* The elements of a preview: a block per div, an empty element per <br>
\* between blocks.
PreviewLines(html) ==
    LET at == SelectSeq([i \in 1..Len(html) |-> i],
                        LAMBDA i : \/ html[i] = DivEnd
                                   \/ html[i] = Br /\ ~InsideDiv(html, i))
    IN  [k \in 1..Len(at) |->
            IF html[at[k]] = Br THEN <<>>
            ELSE LinesOf(rstrip(lstrip(Shown(DivText(html, at[k])))), "\n")]

View(elements) == [i \in 1..Len(elements) |-> TidyLines(elements[i])]

Empty(n) == [i \in 1..n |-> <<>>]

\* The template the claim describes, for one record.
TemplateSlots(p, team, today) ==
    << LinesOf(p.patient_info, "\n") >> \o Empty(2)
    \o << LinesOf(team, "\n") >> \o Empty(1)
    \o << << <<"Ward Round Notes", " ">> \o today >>,
          << <<"Issues">> >>, LinesOf(p.issues, "\n"),
          << <<"On review">> >>, LinesOf(p.labs, "\n") >>
    \o Empty(4)
    \o << << <<"On examination">> >> >> \o Empty(4)
    \o << << <<"Plan">> >>, LinesOf(p.plan, "\n") >>

\* C8: for every record and team label the document and the preview show the
\* same sequence of template slots with the same content: patient line, two
\* blank lines, team line, one blank line, title with the date, Issues and
\* its body, On review and its body, four blank lines, On examination with no
\* body, four blank lines, Plan and its body; an unset team label or an empty
\* field gives an empty body in both.
C8_SameTemplate ==
    /\ \A k \in 1..Len(previews) :
          LET shown == View(PreviewLines(previews[k]))
          IN  \E t \in 0..MaxClock :
                 shown = View(TemplateSlots(patients[k], team_info, DateAt(t)))
    /\ download /= <<>> =>
          LET pages == Pages(GeneratedBody)
          IN  /\ Len(pages) = Len(patients)
              /\ Len(previews) = Len(patients)
              /\ \A k \in 1..Len(patients) :
                    LET printed == View(DocLines(pages[k]))
                    IN  /\ printed = View(PreviewLines(previews[k]))
                        /\ printed =
                              View(TemplateSlots(patients[k], team_info,
                                                 DateAt(last_call[1].t_call)))

C8_Witness ==
    /\ download /= <<>>
    /\ team_info = <<>>
    /\ \E k \in 1..Len(patients) : patients[k].plan = <<>> /\ patients[k].labs /= <<>>
    /\ \E k \in 1..Len(patients) : InSeq("\n", patients[k].issues)

\* The slots that hold the four fields, in cell order.
FieldSlot == <<1, 8, 10, 21>>

FieldOf(p, f) ==
    CASE f = 1 -> p.patient_info [] f = 2 -> p.issues [] f = 3 -> p.labs
      [] f = 4 -> p.plan

\* The non-empty paragraphs of a cell, trimmed.
CellLines(cell) ==
    SelectSeq([i \in 1..Len(cell) |-> strip(cell[i])], LAMBDA l : l /= <<>>)

\* C9: for a cell whose non-empty paragraphs are the lines l1..lk, the field
\* is those lines in order joined by single newlines, and the document body
\* and the preview body of the field each show exactly those k lines in that
\* order, none joined and no blank line between them.  (The two bodies show
\* the lines of the field for every cell; a paragraph that itself holds a
\* line break is not one line, and gives as many lines as it holds.)
C9_LinesRoundTrip ==
    LET rows == UploadedRows
        src  == SourceRows(rows)
    IN  /\ Len(previews) = Len(patients)
        /\ \A k \in 1..Len(patients) :
              LET shown   == PreviewLines(previews[k])
                  printed == IF download /= <<>>
                             THEN DocLines(Pages(GeneratedBody)[k]) ELSE <<>>
              IN  \A f \in 1..4 :
                     LET lines == CellLines(rows[src[k]][f])
                         field == FieldOf(patients[k], f)
                     IN  /\ field = join(<<"\n">>, lines)
                         /\ shown[FieldSlot[f]] = LinesOf(field, "\n")
                         /\ download /= <<>> =>
                               printed[FieldSlot[f]] = LinesOf(field, "\n")
                         /\ (\A i \in 1..Len(lines) : ~InSeq("\n", lines[i])) =>
                               LinesOf(field, "\n") = lines

C9_Witness ==
    /\ download /= <<>>
    /\ \E k \in 1..Len(patients) :
          LET cell == UploadedRows[SourceRows(UploadedRows)[k]][2]
          IN  /\ Len(CellLines(cell)) = 2
              /\ Len(cell) = 3
              /\ \A i \in 1..2 : ~InSeq("\n", CellLines(cell)[i])
              /\ Len(DocLines(Pages(GeneratedBody)[k])[8]) = 2

(***************************************************************************)
(* Two calls of create_progress_notes in succession.                       *)
(***************************************************************************)
SameDate(t1, t2) ==
    LET a == datetime_now(t1) b == datetime_now(t2)
    IN  a.year = b.year /\ a.month = b.month /\ a.day = b.day

\* The date stamps of a document: what follows the title in its paragraphs.
DateStamps(body) ==
    {body[i].runs[2].content : i \in {j \in 1..Len(body) :
        Len(body[j].runs) = 2 /\ body[j].runs[1].content = <<"Ward Round Notes">>}}

SuccessiveCalls ==
    /\ prev_call /= <<>> /\ last_call /= <<>>
    /\ prev_call[1].records = last_call[1].records
    /\ prev_call[1].team = last_call[1].team
    /\ SameDate(prev_call[1].t_call, last_call[1].t_call)
    /\ SameDate(prev_call[1].t_call, prev_call[1].t_end)
    /\ SameDate(last_call[1].t_call, last_call[1].t_end)

\* C10 as amended: two calls in immediate succession with the same records and
\* team label on the same calendar date build the same document, and their
\* saved bytes are identical when the two saves also fall into the same
\* two-second step of the archive's member times; a call reads the date once,
\* so all its records carry the date of the call, and it leaves the record
\* list unchanged.
C10_SameDocument ==
    /\ last_call /= <<>> =>
          /\ DateStamps(last_call[1].output.document.body)
                = {<<" ", " ">> \o DateAt(last_call[1].t_call)}
          /\ last_call[1].records = patients
    /\ (/\ prev_call /= <<>> /\ last_call /= <<>>
        /\ prev_call[1].records = last_call[1].records
        /\ prev_call[1].team = last_call[1].team
        /\ SameDate(prev_call[1].t_call, last_call[1].t_call)) =>
          /\ prev_call[1].output.document = last_call[1].output.document
          /\ prev_call[1].output.stamp = last_call[1].output.stamp
                => prev_call[1].output = last_call[1].output

C10_Witness ==
    /\ SuccessiveCalls
    /\ Len(last_call[1].records) >= 2
    /\ prev_call[1].output.stamp /= last_call[1].output.stamp
    /\ prev_call[1].output.document = last_call[1].output.document

\* C10 as stated: two calls in immediate succession with the same records and
\* team label on the same calendar date return identical bytes.
C10_AsStated ==
    SuccessiveCalls => prev_call[1].output = last_call[1].output

====
